---------------------------- MODULE Spec2Model ----------------------------
(***************************************************************************)
(* A model of the DocuQA application component (DocuQAApp, the second      *)
(* component of src/unnamed/part_002, lines 291-965): the in-memory        *)
(* document store, the chunker, the three retrieval strategies and the     *)
(* handlers that drive them.                                               *)
(*                                                                         *)
(* A string is a sequence of one-character strings, so that length,        *)
(* indexing, substring tests and regular-expression matching are computed  *)
(* rather than assumed.  A file's content is the sequence of its bytes,    *)
(* each written as the character atob() yields for it.                     *)
(***************************************************************************)
EXTENDS Integers, Sequences, FiniteSets, TLC

VARIABLES
    uploadedFiles,      \* useState([])      part_002:295
    documentDatabase,   \* useState([])      part_002:302
    searchMode,         \* useState('smart') part_002:300
    currentQuestion,    \* useState('')      part_002:296
    searchResults,      \* useState([])      part_002:303
    isBuilding,         \* useState(false)   part_002:304
    conversation,       \* useState([])      part_002:297
    isLoading,          \* useState(false)   part_002:298
    uploads,            \* the handleFileUpload calls suspended at an await:
                        \* for each, the files from the one being read on
    requests,           \* the askQuestion calls suspended at their fetch:
                        \* for each, what was sent and the mode it saw
    chunkerCall,        \* a call of splitTextIntoChunks on its own: its
                        \* arguments and, once it has returned, its value
    lastOp              \* the handler that ran last, and how it ended

vars == <<uploadedFiles, documentDatabase, searchMode, currentQuestion,
          searchResults, isBuilding, conversation, isLoading, uploads,
          requests, chunkerCall, lastOp>>

chatVars == <<conversation, isLoading, requests>>

---------------------------------------------------------------------------
(* Bounds of the model.                                                    *)

\* the uploaded-file list is not grown past this length
MaxFiles == 2
\* handleFileUpload calls in flight at once
MaxUploads == 2
\* result budgets k = 0..MaxK the retrieval properties are stated for
MaxK == 2

---------------------------------------------------------------------------
(* Strings.                                                                *)

Fill(n) == [i \in 1..n |-> "x"]

\* String.prototype.toLowerCase, on the model's alphabet
LowerChar(c) ==
    CASE c = "A" -> "a"
      [] c = "B" -> "b"
      [] OTHER -> c

toLowerCase(s) == [i \in 1..Len(s) |-> LowerChar(s[i])]

\* \s of a regular expression, and the characters trim() strips
IsSpace(c) == c \in {" ", "\t", "\n"}

SetMin(S) == CHOOSE x \in S : \A y \in S : x <= y
SetMax(S) == CHOOSE x \in S : \A y \in S : x >= y

\* String.prototype.trim
trim(s) ==
    LET keep == {i \in 1..Len(s) : ~IsSpace(s[i])}
    IN  IF keep = {} THEN <<>>
        ELSE SubSeq(s, SetMin(keep), SetMax(keep))

\* String.prototype.includes
includes(s, t) ==
    \E i \in 1..(Len(s) - Len(t) + 1) :
        \A j \in 1..Len(t) : s[i + j - 1] = t[j]

\* `${name}_chunk_${index}`
ChunkId(name, index) == name \o "_chunk_" \o ToString(index)

---------------------------------------------------------------------------
(* The chunker: splitTextIntoChunks, part_002:359-378.                     *)

\* The matches of /[.!?]\s+/ in text: a match starts at every '.', '!' or
\* '?' that is followed by white space and runs to the end of that white
\* space, so no two of them overlap.
BoundaryStarts(text) ==
    {i \in 1..(Len(text) - 1) :
        text[i] \in {".", "!", "?"} /\ IsSpace(text[i + 1])}

BoundaryEnd(text, i) ==
    SetMin({j \in (i + 1)..Len(text) :
                j = Len(text) \/ ~IsSpace(text[j + 1])})

\* text.split(/[.!?]\s+/), from position `from` on
RECURSIVE SplitFrom(_, _)
SplitFrom(text, from) ==
    LET next == {i \in BoundaryStarts(text) : i >= from}
    IN  IF next = {} THEN <<SubSeq(text, from, Len(text))>>
        ELSE LET b == SetMin(next)
             IN  <<SubSeq(text, from, b - 1)>>
                 \o SplitFrom(text, BoundaryEnd(text, b) + 1)

SplitSentences(text) == SplitFrom(text, 1)

\* a faulty loop that starts the new buffer empty after a flush
RECURSIVE Accumulate_DropOnFlush(_, _, _, _)
Accumulate_DropOnFlush(sentences, n, chunkSize, acc) ==
    IF n > Len(sentences) THEN acc
    ELSE LET sentence == sentences[n]
             cur == acc.currentChunk
         IN  IF Len(cur) + Len(sentence) > chunkSize /\ Len(cur) > 0
             THEN Accumulate_DropOnFlush(sentences, n + 1, chunkSize,
                     [chunks |-> Append(acc.chunks, trim(cur)),
                      currentChunk |-> <<>>])
             ELSE Accumulate_DropOnFlush(sentences, n + 1, chunkSize,
                     [chunks |-> acc.chunks,
                      currentChunk |->
                          cur \o (IF cur # <<>> THEN <<" ">> ELSE <<>>)
                              \o sentence])

\* The for loop of lines 364-371: `acc` is [chunks, currentChunk].
RECURSIVE Accumulate(_, _, _, _)
Accumulate(sentences, n, chunkSize, acc) ==
    IF n > Len(sentences) THEN acc
    ELSE LET sentence == sentences[n]
             cur == acc.currentChunk
         IN  IF Len(cur) + Len(sentence) > chunkSize /\ Len(cur) > 0
             THEN Accumulate(sentences, n + 1, chunkSize,
                     [chunks |-> Append(acc.chunks, trim(cur)),
                      currentChunk |-> sentence])
             ELSE Accumulate(sentences, n + 1, chunkSize,
                     [chunks |-> acc.chunks,
                      currentChunk |->
                          cur \o (IF cur # <<>> THEN <<" ">> ELSE <<>>)
                              \o sentence])

\* The chunks before the final length filter (lines 360-375).
RawChunks(text, chunkSize) ==
    LET acc == Accumulate(SplitSentences(text), 1, chunkSize,
                          [chunks |-> <<>>, currentChunk |-> <<>>])
    IN  IF acc.currentChunk # <<>>
        THEN Append(acc.chunks, trim(acc.currentChunk))
        ELSE acc.chunks

\* chunks shorter than this are dropped (line 377)
MinChunkLength == 50

\* processDocument chunks every text with this size (line 331)
ChunkSize == 500

\* a faulty filter that keeps the chunks of exactly the threshold length
splitTextIntoChunks_KeepAtThreshold(text, chunkSize) ==
    SelectSeq(RawChunks(text, chunkSize), LAMBDA c : Len(c) >= MinChunkLength)

\* the chunker with its final filter (lines 359-378)
splitTextIntoChunks(text, chunkSize) ==
    SelectSeq(RawChunks(text, chunkSize), LAMBDA c : Len(c) > MinChunkLength)

\* no call of the chunker on its own is under way
NoCall == [text |-> <<>>, chunkSize |-> 0, returned |-> FALSE, chunks |-> <<>>]

---------------------------------------------------------------------------
(* The files a user can select.                                            *)

TextAB == <<"a", " ", "b", " ">> \o Fill(50)
TextABA == <<"a", " ", "B", " ", "a", " ">> \o Fill(50)
TextLong ==
    <<"a", " ">> \o Fill(250) \o <<".", " ">>
        \o <<"b", " ", "a", " ", "b", " ">> \o Fill(250)
TextShort == <<"a", " ", "b", ".", " ", "a", ".">>
PdfBytes == <<"%", "P", "D", "F">>

\* file.name.endsWith('.txt')
EndsWithTxt(name) == name \in {"a.txt", "b.txt", "s.txt"}

\* the test of line 434
Supported(file) ==
    \/ file.type = "application/pdf"
    \/ file.type = "text/plain"
    \/ EndsWithTxt(file.name)

FileA1 == [name |-> "a.txt", type |-> "text/plain", bytes |-> TextAB]
FileA2 == [name |-> "a.txt", type |-> "text/plain", bytes |-> TextABA]
FileB  == [name |-> "b.txt", type |-> "", bytes |-> TextLong]
FileS  == [name |-> "s.txt", type |-> "text/plain", bytes |-> TextShort]
FileP  == [name |-> "p.pdf", type |-> "application/pdf", bytes |-> PdfBytes]
FileN  == [name |-> "n.png", type |-> "image/png", bytes |-> PdfBytes]

Files == {FileA1, FileA2, FileB, FileS, FileP, FileN}

\* The selections of one file dialog (the input is `multiple`, line 694):
\* one or two files, among them two of the same name, a PDF ahead of a
\* text file, and an unsupported file alone and behind a text file.
Batches ==
    {<<FileA1>>, <<FileN>>, <<FileA1, FileA2>>, <<FileP, FileB>>,
     <<FileB, FileN>>}

---------------------------------------------------------------------------
(* The document store.                                                     *)

\* a faulty processDocument that numbers the chunks from 1
processDocument_CountFromOne(file) ==
    IF file.type = "application/pdf"
    THEN [name |-> file.name, type |-> file.type, size |-> Len(file.bytes),
          base64Data |-> file.bytes, processed |-> FALSE]
    ELSE LET textContent == file.bytes
             chunks == splitTextIntoChunks(textContent, ChunkSize)
         IN  [name |-> file.name, type |-> file.type,
              size |-> Len(file.bytes),
              textContent |-> textContent,
              chunks |-> [index \in 1..Len(chunks) |->
                            [id |-> ChunkId(file.name, index - 1),
                             content |-> chunks[index],
                             source |-> file.name,
                             metadata |->
                                [filename |-> file.name,
                                 chunk_index |-> index,
                                 total_chunks |-> Len(chunks)]]],
              processed |-> TRUE]

\* processDocument, part_002:313-356.  readAsDataURL followed by atob
\* returns the file's bytes, one character per byte; a PDF keeps the
\* encoded bytes and gets neither textContent nor chunks.
processDocument(file) ==
    IF file.type = "application/pdf"
    THEN [name |-> file.name, type |-> file.type, size |-> Len(file.bytes),
          base64Data |-> file.bytes, processed |-> FALSE]
    ELSE LET textContent == file.bytes
             chunks == splitTextIntoChunks(textContent, ChunkSize)
         IN  [name |-> file.name, type |-> file.type,
              size |-> Len(file.bytes),
              textContent |-> textContent,
              chunks |-> [index \in 1..Len(chunks) |->
                            [id |-> ChunkId(file.name, index - 1),
                             content |-> chunks[index],
                             source |-> file.name,
                             metadata |->
                                [filename |-> file.name,
                                 chunk_index |-> index - 1,
                                 total_chunks |-> Len(chunks)]]],
              processed |-> TRUE]

\* processDocument of every selectable file, computed once.
ProcessedDocs == [f \in Files |-> processDocument(f)]

\* doc.chunks || []
ChunksOf(doc) == IF "chunks" \in DOMAIN doc THEN doc.chunks ELSE <<>>

\* db.flatMap(doc => doc.chunks || [])  (lines 382, 419)
RECURSIVE FlatChunks(_, _)
FlatChunks(db, n) ==
    IF n > Len(db) THEN <<>>
    ELSE ChunksOf(db[n]) \o FlatChunks(db, n + 1)

allChunks(db) == FlatChunks(db, 1)

\* The files of a batch from the first one the loop has to wait for: the
\* loop alerts for an unsupported file and goes on without suspending.
RECURSIVE SkipUnsupported(_)
SkipUnsupported(files) ==
    IF files = <<>> THEN <<>>
    ELSE IF Supported(Head(files)) THEN files
    ELSE SkipUnsupported(Tail(files))

RemoveAt(seq, i) ==
    [j \in 1..(Len(seq) - 1) |-> IF j < i THEN seq[j] ELSE seq[j + 1]]

\* setUploadedFiles(prev => [...prev, processedDoc])  (line 453)
AddUploaded(prev, doc) == Append(prev, doc)

\* setDocumentDatabase(prev => [...prev, processedDoc]) when processed
\* (lines 454-456)
AddToDatabase(prev, doc) ==
    IF doc.processed THEN Append(prev, doc) ELSE prev

\* handleFileUpload up to its first await (lines 429-444): a batch with no
\* supported file runs to the end, setIsBuilding(false) included.
HandleFileUpload(files) ==
    /\ Len(uploads) < MaxUploads
    /\ LET rest == SkipUnsupported(files)
       IN  /\ isBuilding' = (rest # <<>>)
           /\ uploads' = IF rest = <<>> THEN uploads
                         ELSE Append(uploads, rest)
    /\ lastOp' = [op |-> "handleFileUpload", name |-> "",
                  outcome |-> "started"]
    /\ UNCHANGED <<uploadedFiles, documentDatabase, searchMode,
                   currentQuestion, searchResults>>
    /\ UNCHANGED <<chatVars, chunkerCall>>

\* The continuation of upload b when its FileReader settles (lines 436-460)
\* and the loop runs on to its next await or to its end (lines 466-469).
FileRead(b, loaded) ==
    /\ b \in 1..Len(uploads)
    /\ Len(uploadedFiles) < MaxFiles
    /\ LET file == Head(uploads[b])
           rest == SkipUnsupported(Tail(uploads[b]))
           doc  == ProcessedDocs[file]
       IN  /\ IF loaded
              THEN /\ uploadedFiles' = AddUploaded(uploadedFiles, doc)
                   /\ documentDatabase' = AddToDatabase(documentDatabase, doc)
              ELSE UNCHANGED <<uploadedFiles, documentDatabase>>
           /\ IF rest = <<>>
              THEN /\ uploads' = RemoveAt(uploads, b)
                   /\ isBuilding' = FALSE
              ELSE /\ uploads' = [uploads EXCEPT ![b] = rest]
                   /\ UNCHANGED isBuilding
           /\ lastOp' = [op |-> "fileRead", name |-> "",
                         outcome |-> IF loaded THEN "added" ELSE "failed"]
    /\ UNCHANGED <<searchMode, currentQuestion, searchResults>>
    /\ UNCHANGED <<chatVars, chunkerCall>>

\* removeFile, part_002:472-476
RemovedFromUploaded(prev, indexToRemove) == RemoveAt(prev, indexToRemove)

\* a faulty removal that drops only the first document of that name
RemovedFromDatabase_FirstOnly(prev, name) ==
    LET hits == {i \in 1..Len(prev) : prev[i].name = name}
    IN  IF hits = {} THEN prev ELSE RemoveAt(prev, SetMin(hits))

RemovedFromDatabase(prev, name) ==
    SelectSeq(prev, LAMBDA doc : doc.name # name)

RemoveFile(indexToRemove) ==
    /\ indexToRemove \in 1..Len(uploadedFiles)
    /\ LET fileToRemove == uploadedFiles[indexToRemove]
       IN  /\ uploadedFiles' =
                 RemovedFromUploaded(uploadedFiles, indexToRemove)
           /\ documentDatabase' =
                 RemovedFromDatabase(documentDatabase, fileToRemove.name)
           /\ lastOp' = [op |-> "removeFile", name |-> fileToRemove.name,
                         outcome |-> "removed"]
    /\ UNCHANGED <<searchMode, currentQuestion, searchResults, isBuilding,
                   uploads>>
    /\ UNCHANGED <<chatVars, chunkerCall>>

---------------------------------------------------------------------------
(* Regular expressions: new RegExp(word, 'g') and String.prototype.match   *)
(* (line 390), for patterns over letters, '.' and '?'.                     *)

\* The pattern as a sequence of atoms, each matched once ("one"),
\* optionally and greedily ("greedy": x?) or optionally and lazily
\* ("lazy": x??).  A '?' with nothing to repeat is a SyntaxError.
RECURSIVE ParsePattern(_, _, _)
ParsePattern(word, i, items) ==
    IF i > Len(word) THEN [ok |-> TRUE, items |-> items]
    ELSE IF word[i] = "?"
    THEN IF items = <<>> \/ items[Len(items)].quant = "lazy"
         THEN [ok |-> FALSE, items |-> <<>>]
         ELSE ParsePattern(word, i + 1,
                 [items EXCEPT ![Len(items)].quant =
                     IF @ = "one" THEN "greedy" ELSE "lazy"])
    ELSE ParsePattern(word, i + 1,
             Append(items, [ch |-> word[i], quant |-> "one"]))

RegExp(word) == ParsePattern(word, 1, <<>>)

\* The position after the match of items[i..] that starts at position p of
\* s, as the backtracking matcher finds it; 0 when there is none.
RECURSIVE MatchFrom(_, _, _, _)
MatchFrom(items, i, s, p) ==
    IF i > Len(items) THEN p
    ELSE LET item == items[i]
             fits == p <= Len(s) /\ (item.ch = "." \/ s[p] = item.ch)
             take == IF fits THEN MatchFrom(items, i + 1, s, p + 1) ELSE 0
             skip == MatchFrom(items, i + 1, s, p)
         IN  CASE item.quant = "one" -> take
               [] item.quant = "greedy" -> IF take # 0 THEN take ELSE skip
               [] item.quant = "lazy" -> IF skip # 0 THEN skip ELSE take

\* The global match loop from lastIndex p while lastIndex is in lo..hi:
\* <<matches found, lastIndex on leaving hi>>.  A match at p moves lastIndex
\* to its end, an empty match moves it one further, no match at p moves the
\* search to p + 1.  The range is halved so that the evaluation stays
\* shallow on long strings.
RECURSIVE ScanMatches(_, _, _, _, _)
ScanMatches(items, s, p, lo, hi) ==
    IF lo = hi
    THEN LET e == MatchFrom(items, 1, s, p)
         IN  IF e = 0 THEN <<0, p + 1>>
             ELSE <<1, IF e > p THEN e ELSE p + 1>>
    ELSE LET mid == (lo + hi) \div 2
             left == IF p <= mid THEN ScanMatches(items, s, p, lo, mid)
                     ELSE <<0, p>>
             right == IF left[2] <= hi
                      THEN ScanMatches(items, s, left[2], mid + 1, hi)
                      ELSE <<0, left[2]>>
         IN  <<left[1] + right[1], right[2]>>

\* (content.match(new RegExp(word, 'g')) || []).length, for a word that
\* compiles
MatchCount(word, content) ==
    ScanMatches(RegExp(word).items, content, 1, 1, Len(content) + 1)[1]

---------------------------------------------------------------------------
(* Queries.                                                                *)

QueryAb    == <<"A", " ", "b">>
QueryBb    == <<"b", " ", "b">>
QueryADot  == <<"a", ".">>
QueryMark  == <<"?">>
QueryNone  == <<"z">>
QueryBlank == <<" ">>

Queries == {QueryAb, QueryBb, QueryADot, QueryMark, QueryNone, QueryBlank,
            <<>>}

\* str.split(/\s+/), from position `from` on: the separators are the
\* maximal runs of white space.
RECURSIVE SplitWordsFrom(_, _)
SplitWordsFrom(str, from) ==
    LET spaces == {i \in from..Len(str) : IsSpace(str[i])}
    IN  IF spaces = {} THEN <<SubSeq(str, from, Len(str))>>
        ELSE LET b == SetMin(spaces)
                 e == SetMin({j \in b..Len(str) :
                                 j = Len(str) \/ ~IsSpace(str[j + 1])})
             IN  <<SubSeq(str, from, b - 1)>> \o SplitWordsFrom(str, e + 1)

SplitWords(str) == SplitWordsFrom(str, 1)

Range(seq) == {seq[i] : i \in 1..Len(seq)}

\* The match counts and containment tests of every query against every
\* chunk of a selectable file, computed once.
AllContents ==
    UNION {Range([i \in 1..Len(ChunksOf(ProcessedDocs[f])) |->
                    ChunksOf(ProcessedDocs[f])[i].content]) : f \in Files}

AllWords ==
    {w \in UNION {Range(SplitWords(toLowerCase(q))) : q \in Queries} :
        RegExp(w).ok}

MatchCounts ==
    [w \in AllWords, c \in AllContents |-> MatchCount(w, toLowerCase(c))]

Containments ==
    [q \in Queries, c \in AllContents |->
        includes(toLowerCase(c), toLowerCase(q))]

---------------------------------------------------------------------------
(* The three retrieval strategies.  Each returns [threw, error, results]:   *)
(* threw is TRUE when the call ends in the exception `error` instead of a  *)
(* value.                                                                  *)

Returned(results) == [threw |-> FALSE, error |-> "", results |-> results]
Thrown(error) == [threw |-> TRUE, error |-> error, results |-> <<>>]

\* array.slice(0, k)
Slice(seq, k) == SubSeq(seq, 1, IF k < Len(seq) THEN k ELSE Len(seq))

\* (content.match(new RegExp(word, 'g')) || []).length on the lower-cased
\* content (lines 388-390)
WordMatches(word, content) ==
    IF word \in AllWords /\ content \in AllContents
    THEN MatchCounts[word, content]
    ELSE MatchCount(word, toLowerCase(content))

\* queryWords.reduce((acc, word) => acc + matches, 0)  (lines 389-392)
RECURSIVE ScoreFrom(_, _, _)
ScoreFrom(queryWords, n, content) ==
    IF n > Len(queryWords) THEN 0
    ELSE WordMatches(queryWords[n], content)
            + ScoreFrom(queryWords, n + 1, content)

ChunkScore(queryWords, chunk) == ScoreFrom(queryWords, 1, chunk.content)

\* { ...chunk, score }  (line 394)
WithScore(chunk, score) ==
    [id |-> chunk.id, content |-> chunk.content, source |-> chunk.source,
     metadata |-> chunk.metadata, score |-> score]

\* a faulty comparator that sorts by ascending score
CompareScore_Ascending(a, b) == a.score - b.score

\* the comparator of line 399
CompareScore(a, b) == b.score - a.score

\* Array.prototype.sort with that comparator: a stable sort, so an element
\* goes behind every element the comparator does not put after it.
InsertSorted(sorted, x) ==
    LET ahead == {i \in 1..Len(sorted) : CompareScore(sorted[i], x) <= 0}
        n == IF ahead = {} THEN 0 ELSE SetMax(ahead)
    IN  SubSeq(sorted, 1, n) \o <<x>> \o SubSeq(sorted, n + 1, Len(sorted))

RECURSIVE SortFrom(_, _, _)
SortFrom(seq, n, sorted) ==
    IF n > Len(seq) THEN sorted
    ELSE SortFrom(seq, n + 1, InsertSorted(sorted, seq[n]))

SortByScore(seq) == SortFrom(seq, 1, <<>>)

\* performVectorSearch, part_002:381-401
performVectorSearch(db, query, k) ==
    LET chunks == allChunks(db)
        queryWords == SplitWords(toLowerCase(query))
    IN  IF chunks = <<>> THEN Returned(<<>>)
        ELSE IF \E n \in 1..Len(queryWords) : ~RegExp(queryWords[n]).ok
        THEN Thrown("SyntaxError")
        ELSE LET scoredChunks ==
                     [n \in 1..Len(chunks) |->
                         WithScore(chunks[n],
                                   ChunkScore(queryWords, chunks[n]))]
                 found == SelectSeq(scoredChunks, LAMBDA c : c.score > 0)
             IN  Returned(Slice(SortByScore(found), k))

\* a faulty test that lower-cases the query only
KeywordMatch_CaseSensitive(chunk, query) ==
    includes(chunk.content, toLowerCase(query))

\* chunk.content.toLowerCase().includes(query.toLowerCase())  (line 423)
KeywordMatch(chunk, query) ==
    IF query \in Queries /\ chunk.content \in AllContents
    THEN Containments[query, chunk.content]
    ELSE includes(toLowerCase(chunk.content), toLowerCase(query))

\* performKeywordSearch, part_002:418-427
performKeywordSearch(db, query, k) ==
    LET chunks == allChunks(db)
    IN  IF chunks = <<>> THEN Returned(<<>>)
        ELSE Returned(Slice(SelectSeq(chunks,
                                LAMBDA c : KeywordMatch(c, query)), k))

\* a faulty merge that keeps every entry
Unique_KeepAll(combined) == combined

\* combined.filter((item, index, self) =>
\*     self.findIndex(t => t.id === item.id) === index)  (lines 410-412)
Unique(combined) ==
    LET first(n) == SetMin({m \in 1..Len(combined) :
                               combined[m].id = combined[n].id})
        kept == {n \in 1..Len(combined) : first(n) = n}
        nth(j) == CHOOSE n \in kept :
                      Cardinality({m \in kept : m < n}) = j - 1
    IN  [j \in 1..Cardinality(kept) |-> combined[nth(j)]]

\* a faulty merge that puts the keyword results first
performHybridSearch_KeywordFirst(db, query, k) ==
    LET vectorResults == performVectorSearch(db, query, k)
        keywordResults == performKeywordSearch(db, query, k)
    IN  IF vectorResults.threw THEN vectorResults
        ELSE Returned(Slice(Unique(keywordResults.results
                                    \o vectorResults.results), k))

\* performHybridSearch, part_002:404-415
performHybridSearch(db, query, k) ==
    LET vectorResults == performVectorSearch(db, query, k)
        keywordResults == performKeywordSearch(db, query, k)
    IN  IF vectorResults.threw THEN vectorResults
        ELSE Returned(Slice(Unique(vectorResults.results
                                    \o keywordResults.results), k))

\* a faulty switch that rejects the values it has no case for
Dispatch_RejectUnknown(db, mode, query, k) ==
    CASE mode = "vector" -> performVectorSearch(db, query, k)
      [] mode = "keyword" -> performKeywordSearch(db, query, k)
      [] mode = "smart" -> performHybridSearch(db, query, k)
      [] OTHER -> Thrown("InvalidModeError")

\* the switch of performSearch (lines 483-494)
Dispatch(db, mode, query, k) ==
    CASE mode = "vector" -> performVectorSearch(db, query, k)
      [] mode = "keyword" -> performKeywordSearch(db, query, k)
      [] OTHER -> performHybridSearch(db, query, k)

\* standalone search asks for 5 results (lines 485-492)
SearchK == 5

\* the values of the mode <select> (lines 765-767)
Modes == {"smart", "vector", "keyword"}

\* setSearchMode(e.target.value)  (line 762)
SetSearchMode(mode) ==
    /\ mode # searchMode
    /\ searchMode' = mode
    /\ lastOp' = [op |-> "setSearchMode", name |-> "", outcome |-> ""]
    /\ UNCHANGED <<uploadedFiles, documentDatabase, currentQuestion,
                   searchResults, isBuilding, uploads>>
    /\ UNCHANGED <<chatVars, chunkerCall>>

\* setCurrentQuestion(e.target.value)  (lines 776, 861)
SetCurrentQuestion(q) ==
    /\ q # currentQuestion
    /\ currentQuestion' = q
    /\ lastOp' = [op |-> "setCurrentQuestion", name |-> "", outcome |-> ""]
    /\ UNCHANGED <<uploadedFiles, documentDatabase, searchMode,
                   searchResults, isBuilding, uploads>>
    /\ UNCHANGED <<chatVars, chunkerCall>>

\* performSearch(currentQuestion), part_002:478-497: a blank query returns
\* at once, an exception leaves searchResults as they were.
PerformSearch ==
    LET query == currentQuestion
        found == Dispatch(documentDatabase, searchMode, query, SearchK)
    IN  /\ IF trim(query) = <<>>
           THEN /\ UNCHANGED searchResults
                /\ lastOp' = [op |-> "performSearch", name |-> "",
                              outcome |-> "ignored"]
           ELSE IF found.threw
           THEN /\ UNCHANGED searchResults
                /\ lastOp' = [op |-> "performSearch", name |-> "",
                              outcome |-> found.error]
           ELSE /\ searchResults' = found.results
                /\ lastOp' = [op |-> "performSearch", name |-> "",
                              outcome |-> "returned"]
        /\ UNCHANGED <<uploadedFiles, documentDatabase, searchMode,
                       currentQuestion, isBuilding, uploads>>
        /\ UNCHANGED <<chatVars, chunkerCall>>

---------------------------------------------------------------------------
(* The chat tab: askQuestion up to its fetch, the end of the fetch, and    *)
(* clearConversation.  Message timestamps are left out.                    *)

MaxMessages == 2

\* askQuestion retrieves 3 chunks (line 521)
AskK == 3

\* The reply texts: data.content[0].text of a response (line 595) and the
\* fixed apology of the catch block (line 609).
AnswerText == <<"o", "k">>
ErrorText == <<"e", "r", "r">>

\* { role: 'user', content: currentQuestion }  (line 512)
UserMessage(question) == [role |-> "user", content |-> question]

\* { role: 'assistant', content, searchMode }  (lines 597-602)
AiMessage(mode) ==
    [role |-> "assistant", content |-> AnswerText, searchMode |-> mode]

\* { role: 'assistant', content, isError: true }  (lines 607-612)
ErrorMessage ==
    [role |-> "assistant", content |-> ErrorText, isError |-> TRUE]

\* the retrieval of lines 519-527: the hybrid search whichever of the three
\* modes is selected, none under any other value
relevantChunks(db, mode, question) ==
    IF mode \in Modes THEN performHybridSearch(db, question, AskK)
    ELSE Returned(<<>>)

\* the document parts, one per uploaded PDF (lines 533-542)
PdfParts(files) ==
    LET pdfs == SelectSeq(files, LAMBDA f : f.type = "application/pdf")
    IN  [n \in 1..Len(pdfs) |->
            [type |-> "document", data |-> pdfs[n].base64Data]]

\* the text part that lists the retrieved chunks, each as
\* "[source] content" (lines 523-525, 546-549)
ContextPart(chunks) ==
    [type |-> "text", part |-> "context",
     chunks |-> [n \in 1..Len(chunks) |->
                    [source |-> chunks[n].source,
                     content |-> chunks[n].content]]]

\* the text parts with the whole text of every uploaded file that has a
\* non-empty textContent (lines 552-557)
FullTextParts(files) ==
    LET texts == SelectSeq(files,
                     LAMBDA f : "textContent" \in DOMAIN f
                                    /\ f.textContent # <<>>)
    IN  [n \in 1..Len(texts) |->
            [type |-> "text", part |-> "document", name |-> texts[n].name,
             text |-> texts[n].textContent]]

\* the text part with the question (lines 561-564)
QuestionPart(question) ==
    [type |-> "text", part |-> "question", text |-> question]

\* a faulty documentContent that adds the whole texts in every case
DocumentContent_AlwaysFullText(files, chunks, question) ==
    PdfParts(files)
        \o (IF chunks # <<>> THEN <<ContextPart(chunks)>> ELSE <<>>)
        \o FullTextParts(files)
        \o <<QuestionPart(question)>>

\* documentContent as askQuestion builds it (lines 530-564); an empty
\* retrieval falls back to the whole texts.
DocumentContent(files, chunks, question) ==
    PdfParts(files)
        \o (IF chunks # <<>> THEN <<ContextPart(chunks)>>
            ELSE FullTextParts(files))
        \o <<QuestionPart(question)>>

\* askQuestion, part_002:499-588, up to the await of fetch.  Both places
\* that call it are disabled while isLoading (lines 862, 865, 869).  An
\* exception of the retrieval is caught at line 605, and the finally block
\* runs at once.
AskQuestion ==
    LET found == relevantChunks(documentDatabase, searchMode, currentQuestion)
    IN  /\ ~isLoading
        /\ Len(conversation) + 2 <= MaxMessages
        /\ IF trim(currentQuestion) = <<>> \/ Len(uploadedFiles) = 0
           THEN /\ UNCHANGED <<conversation, isLoading, requests,
                               currentQuestion>>
                /\ lastOp' = [op |-> "askQuestion", name |-> "",
                              outcome |-> "refused"]
           ELSE IF found.threw
           THEN /\ conversation' =
                       conversation \o <<UserMessage(currentQuestion),
                                         ErrorMessage>>
                /\ isLoading' = FALSE
                /\ currentQuestion' = <<>>
                /\ UNCHANGED requests
                /\ lastOp' = [op |-> "askQuestion", name |-> "",
                              outcome |-> found.error]
           ELSE /\ conversation' =
                       Append(conversation, UserMessage(currentQuestion))
                /\ isLoading' = TRUE
                /\ requests' =
                       Append(requests,
                              [content |-> DocumentContent(uploadedFiles,
                                               found.results,
                                               currentQuestion),
                               searchMode |-> searchMode])
                /\ UNCHANGED currentQuestion
                /\ lastOp' = [op |-> "askQuestion", name |-> "",
                              outcome |-> "sent"]
        /\ UNCHANGED <<uploadedFiles, documentDatabase, searchMode,
                       searchResults, isBuilding, uploads, chunkerCall>>

\* How a fetch can end: a response with a readable answer, a response with
\* a non-OK status, a rejected fetch, a body without content[0].text.
FetchResults == {"answer", "status", "rejected", "malformed"}

\* a faulty continuation that resets the form only after an answer
FetchDone_ResetOnAnswerOnly(result) ==
    /\ requests # <<>>
    /\ conversation' =
           Append(conversation,
                  IF result = "answer"
                  THEN AiMessage(Head(requests).searchMode)
                  ELSE ErrorMessage)
    /\ isLoading' = (result # "answer")
    /\ currentQuestion' = IF result = "answer" THEN <<>> ELSE currentQuestion
    /\ requests' = Tail(requests)
    /\ lastOp' = [op |-> "fetchDone", name |-> "", outcome |-> result]
    /\ UNCHANGED <<uploadedFiles, documentDatabase, searchMode,
                   searchResults, isBuilding, uploads, chunkerCall>>

\* askQuestion, part_002:590-617, from the end of the fetch on.  While a
\* call is pending isLoading keeps a second one from starting, so the
\* pending call is the first of requests.
FetchDone(result) ==
    /\ requests # <<>>
    /\ conversation' =
           Append(conversation,
                  IF result = "answer"
                  THEN AiMessage(Head(requests).searchMode)
                  ELSE ErrorMessage)
    /\ isLoading' = FALSE
    /\ currentQuestion' = <<>>
    /\ requests' = Tail(requests)
    /\ lastOp' = [op |-> "fetchDone", name |-> "", outcome |-> result]
    /\ UNCHANGED <<uploadedFiles, documentDatabase, searchMode,
                   searchResults, isBuilding, uploads, chunkerCall>>

\* clearConversation, part_002:620-622
ClearConversation ==
    /\ conversation # <<>>
    /\ conversation' = <<>>
    /\ lastOp' = [op |-> "clearConversation", name |-> "", outcome |-> ""]
    /\ UNCHANGED <<uploadedFiles, documentDatabase, searchMode,
                   currentQuestion, searchResults, isBuilding, isLoading,
                   uploads, requests, chunkerCall>>

---------------------------------------------------------------------------

Init ==
    /\ uploadedFiles = <<>>
    /\ documentDatabase = <<>>
    /\ searchMode = "smart"
    /\ currentQuestion = <<>>
    /\ searchResults = <<>>
    /\ isBuilding = FALSE
    /\ conversation = <<>>
    /\ isLoading = FALSE
    /\ uploads = <<>>
    /\ requests = <<>>
    /\ chunkerCall = NoCall
    /\ lastOp = [op |-> "init", name |-> "", outcome |-> ""]

Next ==
    \/ \E files \in Batches : HandleFileUpload(files)
    \/ \E b \in 1..MaxUploads, loaded \in BOOLEAN : FileRead(b, loaded)
    \/ \E i \in 1..MaxFiles : RemoveFile(i)

\* The document store under uploads and removals.
Spec == Init /\ [][Next]_vars

---------------------------------------------------------------------------
(* Retrieval over the stores that uploads and removals reach.              *)

\* The stores one completed upload of a file of `files` or one removal away
\* from the stores S, by the updates the handlers make.
StoreStep(S, files) ==
    {[uploadedFiles |-> AddUploaded(s.uploadedFiles, ProcessedDocs[f]),
      documentDatabase |-> AddToDatabase(s.documentDatabase, ProcessedDocs[f])]
        : <<s, f>> \in {<<t, g>> \in S \X files :
                            Len(t.uploadedFiles) < MaxFiles}}
    \cup
    UNION {{[uploadedFiles |-> RemovedFromUploaded(s.uploadedFiles, i),
             documentDatabase |->
                 RemovedFromDatabase(s.documentDatabase,
                                     s.uploadedFiles[i].name)]
              : i \in 1..Len(s.uploadedFiles)} : s \in S}

RECURSIVE StoreClosure(_, _)
StoreClosure(S, files) ==
    LET T == S \cup StoreStep(S, files)
    IN  IF T = S THEN S ELSE StoreClosure(T, files)

EmptyStore == [uploadedFiles |-> <<>>, documentDatabase |-> <<>>]

\* Every store that uploads of text files and removals reach from the
\* empty one, with no upload in flight.  A PDF adds nothing to the document
\* database, and the search handlers do not read the uploaded-file list, so
\* these stores hold every corpus a search can meet.
TextStores ==
    StoreClosure({EmptyStore},
                 {f \in Files : Supported(f) /\ f.type # "application/pdf"})

InitSearch ==
    /\ \E s \in TextStores :
          /\ uploadedFiles = s.uploadedFiles
          /\ documentDatabase = s.documentDatabase
    /\ searchMode = "smart"
    /\ currentQuestion = <<>>
    /\ searchResults = <<>>
    /\ isBuilding = FALSE
    /\ conversation = <<>>
    /\ isLoading = FALSE
    /\ uploads = <<>>
    /\ requests = <<>>
    /\ chunkerCall = NoCall
    /\ lastOp = [op |-> "init", name |-> "", outcome |-> ""]

NextSearch ==
    \/ \E m \in Modes : SetSearchMode(m)
    \/ \E q \in Queries : SetCurrentQuestion(q)
    \/ PerformSearch

\* The search tab over a store that uploads and removals have built.
SpecSearch == InitSearch /\ [][NextSearch]_vars

---------------------------------------------------------------------------
(* The search tab when the mode holds a value the <select> does not offer. *)

\* The values performSearch is run under: the three of the <select> and one
\* that is none of them.
ModeInputs == Modes \cup {"semantic"}

InitDispatch ==
    /\ \E s \in TextStores :
          /\ uploadedFiles = s.uploadedFiles
          /\ documentDatabase = s.documentDatabase
    /\ searchMode \in ModeInputs
    /\ currentQuestion = <<>>
    /\ searchResults = <<>>
    /\ isBuilding = FALSE
    /\ conversation = <<>>
    /\ isLoading = FALSE
    /\ uploads = <<>>
    /\ requests = <<>>
    /\ chunkerCall = NoCall
    /\ lastOp = [op |-> "init", name |-> "", outcome |-> ""]

NextDispatch ==
    \/ \E q \in Queries : SetCurrentQuestion(q)
    \/ PerformSearch

\* performSearch as a function of the mode, the store and the query.
SpecDispatch == InitDispatch /\ [][NextDispatch]_vars

---------------------------------------------------------------------------
(* The chat tab over a store that uploads and removals have built.         *)

\* a text file of two chunks and a PDF
ChatFiles == {FileB, FileP}

ChatStores == StoreClosure({EmptyStore}, ChatFiles)

\* a question only the term-frequency scorer finds chunks for, one that
\* finds nothing, and one that is no regular expression
ChatQueries == {QueryBb, QueryNone, QueryMark}

InitChat ==
    /\ \E s \in ChatStores :
          /\ uploadedFiles = s.uploadedFiles
          /\ documentDatabase = s.documentDatabase
    /\ searchMode = "smart"
    /\ currentQuestion = <<>>
    /\ searchResults = <<>>
    /\ isBuilding = FALSE
    /\ conversation = <<>>
    /\ isLoading = FALSE
    /\ uploads = <<>>
    /\ requests = <<>>
    /\ chunkerCall = NoCall
    /\ lastOp = [op |-> "init", name |-> "", outcome |-> ""]

NextChat ==
    \/ \E m \in Modes : SetSearchMode(m)
    \/ \E q \in ChatQueries : SetCurrentQuestion(q)
    \/ AskQuestion
    \/ \E result \in FetchResults : FetchDone(result)
    \/ ClearConversation

SpecChat == InitChat /\ [][NextChat]_vars

\* A fetch that was started settles: it resolves or it rejects.
SpecChatFair ==
    SpecChat /\ WF_vars(\E result \in FetchResults : FetchDone(result))

---------------------------------------------------------------------------
(* Properties.                                                             *)

corpus == allChunks(documentDatabase)

Budgets == 0..MaxK

Min2(a, b) == IF a < b THEN a ELSE b

\* The n-th smallest element of a set of numbers.
NthOf(S, n) == CHOOSE p \in S : Cardinality({r \in S : r < p}) = n - 1

NamesDistinct(docs) ==
    \A i, j \in 1..Len(docs) : i # j => docs[i].name # docs[j].name

\* C1: no two retained documents have the same name, in the uploaded-file
\* list and in the document database, whatever was uploaded and removed
\* (an upload under a name already present is refused).
C1_UniqueNames ==
    NamesDistinct(uploadedFiles) /\ NamesDistinct(documentDatabase)

\* C2: right after removeFile has removed the document called `name`, the
\* corpus holds no chunk whose source is `name`.
C2_CascadeDeletion ==
    lastOp.op = "removeFile" =>
        \A n \in 1..Len(corpus) : corpus[n].source # lastOp.name

\* a removal of a.txt that left other documents' chunks in the corpus
C2_Witness ==
    /\ lastOp.op = "removeFile"
    /\ lastOp.name = "a.txt"
    /\ corpus # <<>>

\* The chunks of the retained text documents, in list order.
RECURSIVE UploadedChunks(_, _)
UploadedChunks(files, n) ==
    IF n > Len(files) THEN <<>>
    ELSE ChunksOf(files[n]) \o UploadedChunks(files, n + 1)

\* C3: the corpus the scorers search is the concatenation of the chunks of
\* the documents retained in the uploaded-file list, in insertion order and
\* then chunk order.
C3_CorpusIsUploadedChunks == corpus = UploadedChunks(uploadedFiles, 1)

ChunkKey(r) == <<r.source, r.metadata.chunk_index>>

NoRepeatedKey(results) ==
    \A i, j \in 1..Len(results) :
        i # j => ChunkKey(results[i]) # ChunkKey(results[j])

\* The query field holds its initial value or a query just typed: with the
\* stores InitSearch starts from, every corpus meets every query there.
QueryEntered == lastOp.op \in {"init", "setCurrentQuestion"}

\* C4: for the query entered and every budget the hybrid search returns no
\* two results with the same (document name, chunk index), and neither does
\* a smart search just performed.
C4_HybridDedup ==
    /\ QueryEntered =>
          \A k \in Budgets :
              NoRepeatedKey(performHybridSearch(documentDatabase,
                                                currentQuestion, k).results)
    /\ (lastOp = [op |-> "performSearch", name |-> "", outcome |-> "returned"]
          /\ searchMode = "smart") => NoRepeatedKey(searchResults)

\* a smart search just returned several results, one of which both scorers
\* had found
C4_Witness ==
    /\ lastOp = [op |-> "performSearch", name |-> "", outcome |-> "returned"]
    /\ searchMode = "smart"
    /\ Len(searchResults) >= 2
    /\ LET v == performVectorSearch(documentDatabase, currentQuestion,
                                    SearchK).results
           w == performKeywordSearch(documentDatabase, currentQuestion,
                                     SearchK).results
       IN  \E i \in 1..Len(v), j \in 1..Len(w) : v[i].id = w[j].id

\* C7: a search with a non-blank query ends by returning a sequence, never
\* by throwing.
C7_SearchNeverThrows ==
    (lastOp.op = "performSearch" /\ trim(currentQuestion) # <<>>) =>
        lastOp.outcome = "returned"

\* The scores the term-frequency scorer gives the corpus for a query.
ScoresOf(q) ==
    [p \in 1..Len(corpus) |->
        ChunkScore(SplitWords(toLowerCase(q)), corpus[p])]

\* The corpus positions with a positive score that come before position p
\* in the order "higher score first, then earlier in the corpus".
Ahead(scores, p) ==
    {r \in 1..Len(corpus) :
        /\ scores[r] > 0
        /\ \/ scores[r] > scores[p]
           \/ scores[r] = scores[p] /\ r < p}

\* The first k chunks of the corpus in that order, each with its score.
BestK(q, k) ==
    LET scores == ScoresOf(q)
        found == {p \in 1..Len(corpus) : scores[p] > 0}
        at(n) == CHOOSE p \in found : Cardinality(Ahead(scores, p)) = n - 1
    IN  [n \in 1..Min2(k, Cardinality(found)) |->
            WithScore(corpus[at(n)], scores[at(n)])]

\* C8: for the query entered and every budget k the term-frequency result
\* has at most k entries, ordered by score descending with equal scores in
\* corpus order, and they are the k best chunks under that order.
C8_TermFrequencyOrdering ==
    QueryEntered => \A k \in Budgets :
        LET out == performVectorSearch(documentDatabase, currentQuestion, k)
        IN  ~out.threw =>
               /\ Len(out.results) <= k
               /\ \A i, j \in 1..Len(out.results) :
                     out.results[i].score > out.results[j].score => i < j
               /\ out.results = BestK(currentQuestion, k)

\* a vector search just returned three or more results that hold a tie and
\* a strict descent, in an order that is not the corpus order
C8_Witness ==
    /\ lastOp = [op |-> "performSearch", name |-> "", outcome |-> "returned"]
    /\ searchMode = "vector"
    /\ Len(searchResults) >= 3
    /\ \E i \in 1..(Len(searchResults) - 1) :
          searchResults[i].score = searchResults[i + 1].score
    /\ \E i \in 1..(Len(searchResults) - 1) :
          searchResults[i].score > searchResults[i + 1].score
    /\ searchResults[1].id # corpus[1].id
    /\ \E k \in Budgets :
          Len(performVectorSearch(documentDatabase, currentQuestion,
                                  k).results) < Len(searchResults)

\* The non-overlapping literal occurrences of a non-empty term in s, from
\* position `from` on.
RECURSIVE LiteralCount(_, _, _)
LiteralCount(term, s, from) ==
    LET hits == {i \in from..(Len(s) - Len(term) + 1) :
                    \A j \in 1..Len(term) : s[i + j - 1] = term[j]}
    IN  IF hits = {} THEN 0
        ELSE 1 + LiteralCount(term, s, SetMin(hits) + Len(term))

RECURSIVE LiteralScore(_, _, _)
LiteralScore(terms, n, content) ==
    IF n > Len(terms) THEN 0
    ELSE LiteralCount(terms[n], content, 1)
            + LiteralScore(terms, n + 1, content)

\* C9: every chunk a vector search returns has as its score the number of
\* literal occurrences of the query's terms in its lower-cased content, and
\* that number is greater than 0 (stated for the queries without an empty
\* term).
C9_LiteralTermFrequency ==
    LET terms == SplitWords(toLowerCase(currentQuestion))
        literal(chunk) == LiteralScore(terms, 1, toLowerCase(chunk.content))
    IN  (lastOp = [op |-> "performSearch", name |-> "", outcome |-> "returned"]
           /\ searchMode = "vector"
           /\ \A n \in 1..Len(terms) : terms[n] # <<>>) =>
          \A i \in 1..Len(searchResults) :
              /\ searchResults[i].score = literal(searchResults[i])
              /\ literal(searchResults[i]) > 0

\* Q occurs in s as a contiguous substring, letter case ignored.
ContainsIgnoringCase(s, Q) ==
    \E i \in 0..(Len(s) - Len(Q)) :
        \A j \in 1..Len(Q) : LowerChar(s[i + j]) = LowerChar(Q[j])

Contained ==
    [q \in Queries, c \in AllContents |-> ContainsIgnoringCase(c, q)]

\* C10: for the query Q entered and every budget k the keyword scorer
\* returns the first k chunks, in corpus order, among those whose content
\* contains Q ignoring case.
C10_KeywordFirstK ==
    QueryEntered => \A k \in Budgets :
        LET q == currentQuestion
            out == performKeywordSearch(documentDatabase, q, k)
            hits == {p \in 1..Len(corpus) : Contained[q, corpus[p].content]}
        IN  /\ ~out.threw
            /\ out.results =
                  [n \in 1..Min2(k, Cardinality(hits)) |->
                      corpus[NthOf(hits, n)]]

\* a keyword search just returned a chunk that matches only when case is
\* ignored, having passed over an earlier chunk, and a smaller budget cuts
\* the result
C10_Witness ==
    /\ lastOp = [op |-> "performSearch", name |-> "", outcome |-> "returned"]
    /\ searchMode = "keyword"
    /\ Len(searchResults) >= 2
    /\ searchResults[1].id # corpus[1].id
    /\ \E i \in 1..Len(searchResults) :
          ~includes(searchResults[i].content, toLowerCase(currentQuestion))
    /\ Len(performKeywordSearch(documentDatabase, currentQuestion,
                                1).results) = 1


\* The strategy the mode names: hybrid for smart, term frequency for
\* vector, substring for keyword.
SelectedStrategy(db, mode, query, k) ==
    CASE mode = "smart" -> performHybridSearch(db, query, k)
      [] mode = "vector" -> performVectorSearch(db, query, k)
      [] mode = "keyword" -> performKeywordSearch(db, query, k)

\* The chunks of the context part of a request, none when it has no such
\* part.
ContextChunks(request) ==
    LET parts == SelectSeq(request.content,
                           LAMBDA p : p.type = "text" /\ p.part = "context")
    IN  IF parts = <<>> THEN <<>> ELSE parts[1].chunks

\* C5: the search mode alone selects the strategy: a standalone search
\* just performed left the results of the strategy its mode names, and a
\* question just sent carries as context the chunks that strategy returns
\* for the question with budget 3.
C5_ModeSelectsStrategy ==
    /\ lastOp = [op |-> "performSearch", name |-> "", outcome |-> "returned"]
          => searchResults =
                 SelectedStrategy(documentDatabase, searchMode,
                                  currentQuestion, SearchK).results
    /\ lastOp = [op |-> "askQuestion", name |-> "", outcome |-> "sent"]
          => ContextChunks(requests[Len(requests)]) =
                 ContextPart(SelectedStrategy(documentDatabase, searchMode,
                                 currentQuestion, AskK).results).chunks

C11_ScoredResults ==
    lastOp = [op |-> "performSearch", name |-> "", outcome |-> "returned"] =>
        \A i \in 1..Len(searchResults) :
            LET r == searchResults[i]
            IN  /\ "score" \in DOMAIN r
                /\ r.score \in Nat
                /\ "strategy" \in DOMAIN r
                /\ searchMode = "keyword" => r.score = 1

---------------------------------------------------------------------------
(* The chunker on its own, over texts put together from sentence segments. *)

MaxSegments == 3

\* The segments the texts are made of: none, short ones, one at the length
\* filter and one just past it, a long one, and one that ends in blanks.
\* Each starts with a letter of its own, so that a chunk shows which
\* segments it holds and in which order.
Mark(c, n) == <<c>> \o Fill(n - 1)

SegmentBlanks == Mark("e", 49) \o <<" ", " ">>

Segments ==
    {<<>>, Mark("a", 20), Mark("b", 50), Mark("c", 51), Mark("d", 250),
     SegmentBlanks}

\* segments written one after the other, each but the last closed by ". "
RECURSIVE JoinSegments(_, _)
JoinSegments(segments, n) ==
    IF n > Len(segments) THEN <<>>
    ELSE segments[n]
            \o (IF n < Len(segments) THEN <<".", " ">> ELSE <<>>)
            \o JoinSegments(segments, n + 1)

ChunkerTexts ==
    {JoinSegments(segments, 1) :
        segments \in UNION {[1..n -> Segments] : n \in 1..MaxSegments}}

\* the chunkSize arguments: a small one and the one processDocument passes
ChunkSizes == {100, ChunkSize}

InitChunker ==
    /\ uploadedFiles = <<>>
    /\ documentDatabase = <<>>
    /\ searchMode = "smart"
    /\ currentQuestion = <<>>
    /\ searchResults = <<>>
    /\ isBuilding = FALSE
    /\ conversation = <<>>
    /\ isLoading = FALSE
    /\ uploads = <<>>
    /\ requests = <<>>
    /\ \E text \in ChunkerTexts, chunkSize \in ChunkSizes :
          chunkerCall = [text |-> text, chunkSize |-> chunkSize,
                         returned |-> FALSE, chunks |-> <<>>]
    /\ lastOp = [op |-> "init", name |-> "", outcome |-> ""]

\* splitTextIntoChunks(text, chunkSize) runs from its first line to its
\* return (part_002:359-378)
SplitTextIntoChunks ==
    /\ chunkerCall.chunkSize > 0
    /\ ~chunkerCall.returned
    /\ chunkerCall' =
           [chunkerCall EXCEPT
               !.returned = TRUE,
               !.chunks = splitTextIntoChunks(chunkerCall.text,
                                              chunkerCall.chunkSize)]
    /\ lastOp' = [op |-> "splitTextIntoChunks", name |-> "",
                  outcome |-> "returned"]
    /\ UNCHANGED <<uploadedFiles, documentDatabase, searchMode,
                   currentQuestion, searchResults, isBuilding, uploads>>
    /\ UNCHANGED chatVars

NextChunker == SplitTextIntoChunks

SpecChunker == InitChunker /\ [][NextChunker]_vars

\* C12: no chunk the chunker returns has a trimmed length of 50 or less,
\* and a text all of whose accumulated buffers trim to 50 characters or
\* less yields no chunk.
C12_NoShortChunk ==
    chunkerCall.returned =>
        /\ \A n \in 1..Len(chunkerCall.chunks) :
              Len(trim(chunkerCall.chunks[n])) > 50
        /\ (\A c \in Range(RawChunks(chunkerCall.text,
                                     chunkerCall.chunkSize)) :
                Len(c) <= 50) => chunkerCall.chunks = <<>>

\* a call returned a chunk although one of its buffers was 51 characters
\* long with the blanks at its end and 49 without them
C12_Witness ==
    /\ chunkerCall.returned
    /\ chunkerCall.chunks # <<>>
    /\ Len(chunkerCall.chunks)
          < Len(RawChunks(chunkerCall.text, chunkerCall.chunkSize))
    /\ \E n \in 1..Len(SplitSentences(chunkerCall.text)) :
          SplitSentences(chunkerCall.text)[n] = SegmentBlanks

\* a string without its white space
Squash(s) == SelectSeq(s, LAMBDA c : ~IsSpace(c))

RECURSIVE Flatten(_, _)
Flatten(seqs, n) ==
    IF n > Len(seqs) THEN <<>> ELSE seqs[n] \o Flatten(seqs, n + 1)

NonEmpty(seqs) == SelectSeq(seqs, LAMBDA s : s # <<>>)

\* The segments cut into consecutive runs, a run ending at every position
\* of `cuts` and at the last segment; each run written without white space.
SquashedRuns(segments, cuts) ==
    LET ends == cuts \cup {Len(segments)}
        first(j) == IF j = 1 THEN 1 ELSE NthOf(ends, j - 1) + 1
    IN  [j \in 1..Cardinality(ends) |->
            Squash(Flatten(SubSeq(segments, first(j), NthOf(ends, j)), 1))]

\* C13: white space and the length filter aside, the chunks are the
\* sentence segments of the text cut into consecutive runs: every segment
\* is in exactly one chunk, whole, and the segments keep their order.
C13_ChunksCoverSegments ==
    chunkerCall.returned =>
        LET segments == SplitSentences(chunkerCall.text)
            raw == RawChunks(chunkerCall.text, chunkerCall.chunkSize)
            squashed == [n \in 1..Len(raw) |-> Squash(raw[n])]
        IN  /\ \E cuts \in SUBSET (1..(Len(segments) - 1)) :
                  NonEmpty(SquashedRuns(segments, cuts)) = NonEmpty(squashed)
            /\ chunkerCall.chunks =
                  SelectSeq(raw, LAMBDA c : Len(c) > MinChunkLength)

\* a call on three segments put the first two into one chunk and flushed
\* it before the third
C13_Witness ==
    /\ chunkerCall.returned
    /\ Len(SplitSentences(chunkerCall.text)) = 3
    /\ Len(RawChunks(chunkerCall.text, chunkerCall.chunkSize)) = 2
    /\ Len(chunkerCall.chunks) = 2
    /\ chunkerCall.chunks[1]
          = Mark("a", 20) \o <<" ">> \o Mark("c", 51)

\* C17: a chunk the chunker returns is longer than chunkSize only if it is
\* one segment that is itself longer than chunkSize.
C17_OnlyOversizedSegments ==
    chunkerCall.returned =>
        LET segments == SplitSentences(chunkerCall.text)
        IN  \A n \in 1..Len(chunkerCall.chunks) :
                Len(chunkerCall.chunks[n]) > chunkerCall.chunkSize =>
                    \E m \in 1..Len(segments) :
                        /\ chunkerCall.chunks[n] = trim(segments[m])
                        /\ Len(segments[m]) > chunkerCall.chunkSize

\* The chunks of every selectable file's content, computed once.
ChunkedTexts ==
    [t \in {f.bytes : f \in Files} |-> splitTextIntoChunks(t, ChunkSize)]

\* A processed document carries all the chunks of its text, in order, each
\* tagged with its index from 0 on, the number of chunks and the document's
\* name.
DocComplete(doc) ==
    doc.processed =>
        LET texts == ChunkedTexts[doc.textContent]
        IN  /\ Len(doc.chunks) = Len(texts)
            /\ \A i \in 1..Len(texts) :
                  /\ doc.chunks[i].content = texts[i]
                  /\ doc.chunks[i].source = doc.name
                  /\ doc.chunks[i].metadata.chunk_index = i - 1
                  /\ doc.chunks[i].metadata.total_chunks = Len(texts)

StoreComplete ==
    /\ \A n \in 1..Len(uploadedFiles) : DocComplete(uploadedFiles[n])
    /\ \A n \in 1..Len(documentDatabase) :
          /\ documentDatabase[n].processed
          /\ DocComplete(documentDatabase[n])

\* C14: in every state, the middle of an upload included, every document
\* of the store carries its complete chunk list with the indices 0..n-1
\* and the count n, and a file whose read or processing failed changes
\* neither the uploaded-file list nor the document database.
C14_AllOrNothing ==
    /\ []StoreComplete
    /\ [][(lastOp'.op = "fileRead" /\ lastOp'.outcome = "failed")
             => UNCHANGED <<uploadedFiles, documentDatabase>>]_vars

\* a file of a batch just failed while the batch has more files to read and
\* the store holds a document of several chunks
C14_Witness ==
    /\ lastOp.op = "fileRead"
    /\ lastOp.outcome = "failed"
    /\ uploads # <<>>
    /\ \E n \in 1..Len(documentDatabase) :
          Len(documentDatabase[n].chunks) >= 2

NoRepeatedId(chunks) ==
    \A i, j \in 1..Len(chunks) : i # j => chunks[i].id # chunks[j].id

\* C18: no two chunks of the corpus have the same id, whatever was
\* uploaded and removed, and so no two results of a vector or keyword
\* search have.
C18_UniqueChunkIds ==
    /\ NoRepeatedId(corpus)
    /\ (lastOp = [op |-> "performSearch", name |-> "", outcome |-> "returned"]
          /\ searchMode \in {"vector", "keyword"})
          => NoRepeatedId(searchResults)

\* C19: while a batch of files is still being read or processed the
\* isBuilding flag is true, with two batches under way as with one.
C19_BuildingWhileUploading == uploads # <<>> => isBuilding

\* The entries of a result sequence whose (document name, chunk index) no
\* earlier entry has, in their order.
KeepFirst(results) ==
    LET kept == {n \in 1..Len(results) :
                    \A m \in 1..(n - 1) :
                        ChunkKey(results[m]) # ChunkKey(results[n])}
    IN  [j \in 1..Cardinality(kept) |-> results[NthOf(kept, j)]]

\* C16: for the query entered and every budget k the hybrid result is the
\* term-frequency results for k followed by the keyword results for k,
\* without the entries whose chunk an earlier entry holds, cut to the first
\* k; it fails only if the term-frequency search fails.
C16_HybridMerge ==
    QueryEntered => \A k \in Budgets :
        LET v == performVectorSearch(documentDatabase, currentQuestion, k)
            w == performKeywordSearch(documentDatabase, currentQuestion, k)
            h == performHybridSearch(documentDatabase, currentQuestion, k)
            merged == KeepFirst(v.results \o w.results)
        IN  IF v.threw THEN h.threw
            ELSE /\ ~h.threw
                 /\ Len(h.results) <= k
                 /\ h.results = SubSeq(merged, 1, Min2(k, Len(merged)))

\* a smart search just returned, and for some budget both scorers fill it
\* with the same chunks in different orders, so that the merge drops the
\* repeated ones and keeps the term-frequency order and scores
C16_Witness ==
    /\ lastOp = [op |-> "performSearch", name |-> "", outcome |-> "returned"]
    /\ searchMode = "smart"
    /\ \E k \in Budgets :
          LET v == performVectorSearch(documentDatabase, currentQuestion,
                                       k).results
              w == performKeywordSearch(documentDatabase, currentQuestion,
                                        k).results
              h == performHybridSearch(documentDatabase, currentQuestion,
                                       k).results
          IN  /\ Len(v) = k /\ Len(w) = k /\ k >= 2
              /\ v[1].id # w[1].id
              /\ h = v

\* The text parts of a request that are of the given kind.
PartsOf(request, kind) ==
    SelectSeq(request.content, LAMBDA p : p.type = "text" /\ p.part = kind)

\* C15: a question just sent whose retrieval (the hybrid search with
\* budget 3 that askQuestion runs) returned chunks carries exactly those
\* chunks, each with its source name, and no whole text; one whose
\* retrieval returned nothing carries the whole text of every retained
\* text document instead.
C15_ContextOrFullText ==
    lastOp = [op |-> "askQuestion", name |-> "", outcome |-> "sent"] =>
        LET request == requests[Len(requests)]
            found == performHybridSearch(documentDatabase, currentQuestion,
                                         AskK).results
            texts == SelectSeq(uploadedFiles,
                               LAMBDA f : f.type # "application/pdf")
            context == PartsOf(request, "context")
            whole == PartsOf(request, "document")
        IN  IF found # <<>>
            THEN /\ Len(context) = 1
                 /\ context[1].chunks =
                       [n \in 1..Len(found) |->
                           [source |-> found[n].source,
                            content |-> found[n].content]]
                 /\ whole = <<>>
            ELSE /\ context = <<>>
                 /\ Len(whole) = Len(texts)
                 /\ \A n \in 1..Len(texts) :
                       /\ whole[n].name = texts[n].name
                       /\ whole[n].text = texts[n].textContent

\* a question was just sent for which nothing was retrieved, with the whole
\* text of a retained document in its place
C15_Witness ==
    /\ lastOp = [op |-> "askQuestion", name |-> "", outcome |-> "sent"]
    /\ performHybridSearch(documentDatabase, currentQuestion,
                           AskK).results = <<>>
    /\ PartsOf(requests[Len(requests)], "document") # <<>>

\* the step was taken by the handler `op` and ended as `outcome`
Ended(op, outcome) == lastOp' = [op |-> op, name |-> "", outcome |-> outcome]

\* C20: an accepted question appends one user message, and its fetch,
\* however it ends, is followed by one assistant message, the answer or the
\* error message, with isLoading false and currentQuestion empty; every
\* accepted question gets there; a refused question changes neither the
\* conversation nor isLoading.
C20_QuestionTerminates ==
    /\ isLoading ~> (~isLoading /\ currentQuestion = <<>>)
    /\ [][Ended("askQuestion", "sent") =>
             /\ conversation' =
                   Append(conversation, UserMessage(currentQuestion))
             /\ isLoading']_vars
    /\ [][Ended("askQuestion", "SyntaxError") =>
             /\ conversation' =
                   conversation \o <<UserMessage(currentQuestion),
                                     ErrorMessage>>
             /\ ~isLoading' /\ currentQuestion' = <<>>]_vars
    /\ [][lastOp'.op = "fetchDone" =>
             /\ Len(conversation') = Len(conversation) + 1
             /\ SubSeq(conversation', 1, Len(conversation)) = conversation
             /\ conversation'[Len(conversation')].role = "assistant"
             /\ conversation'[Len(conversation')].content =
                   (IF lastOp'.outcome = "answer" THEN AnswerText
                    ELSE ErrorText)
             /\ ~isLoading' /\ currentQuestion' = <<>>]_vars
    /\ [][Ended("askQuestion", "refused") =>
             UNCHANGED <<conversation, isLoading>>]_vars

\* a fetch just ended with a non-OK status: the conversation holds the
\* question and the error message, and the form is ready again
C20_Witness ==
    /\ lastOp = [op |-> "fetchDone", name |-> "", outcome |-> "status"]
    /\ Len(conversation) = 2
    /\ conversation[1].role = "user"
    /\ conversation[2] = ErrorMessage
    /\ ~isLoading
    /\ currentQuestion = <<>>

\* C21: every assistant message of the conversation comes right after a
\* user message: the conversation does not start with an assistant message
\* and holds no two assistant messages in a row, however askQuestion, the
\* end of its fetch and clearConversation interleave.
C21_AnswersFollowQuestions ==
    \A n \in 1..Len(conversation) :
        conversation[n].role = "assistant" =>
            /\ n > 1
            /\ conversation[n - 1].role = "user"

============================================================================
